---- MODULE Spec2Model ----
(***************************************************************************)
(* Model of sigpro.process_signals: _build_pipeline, _apply_pipeline and   *)
(* process_signals.  Strings are TLA+ strings, so the dotted names and the *)
(* '#'-suffixed primitive names are built by real concatenation.           *)
(*                                                                         *)
(* A table (pandas.DataFrame) is a sequence of columns, each a record      *)
(* [name, cells]; a pandas.Series built from a dict is a sequence of       *)
(* <<key, value>> pairs with distinct keys in insertion order.             *)
(* The MLBlocks collaborators (load_primitive, MLPipeline, predict) are    *)
(* modelled at the call sites: the primitive catalogue is a fixed table,   *)
(* and predict returns one opaque value per declared output variable,      *)
(* tagged with the inputs it was computed from.                            *)
(* Tables have at least one row: DataFrame.apply on an empty frame takes   *)
(* a pandas-internal path that is not part of this source.                 *)
(***************************************************************************)
EXTENDS Integers, Sequences, FiniteSets, TLC

VARIABLES transformations, aggregations, data, sampling_frequency,
          values_column, keep_values, pc, pipeline, builds, row, calls,
          features, output

vars == <<transformations, aggregations, data, sampling_frequency,
          values_column, keep_values, pc, pipeline, builds, row, calls,
          features, output>>

inputs == <<transformations, aggregations, data, sampling_frequency,
            values_column, keep_values>>

(* ------------------------------ bounds -------------------------------- *)

MaxTransformations == 2

MaxAggregations == 2

MaxRows == 2

(* ------------------------ primitive catalogue ------------------------- *)

\* load_primitive(primitive)['produce']['output'] names, per known primitive
PrimitiveOutputs == ("mean" :> <<"value">>) @@ ("fft" :> <<"amp", "freq">>)

KnownPrimitive(primitive) == primitive \in DOMAIN PrimitiveOutputs

(* ------------------------ step specifications ------------------------- *)

\* init_params dictionaries are sets of <<key, value>> items; {} is the
\* empty dict.  has_params tells whether the 'init_params' key is present.
Step(n, p, h, d) ==
    [name |-> n, primitive |-> p, has_params |-> h, init_params |-> d]

StepSpecs ==
    { Step("a", "mean", FALSE, {}),
      Step("a", "mean", TRUE, {<<"w", 1>>}),
      Step("b", "mean", TRUE, {<<"w", 2>>}),
      Step("b", "fft", TRUE, {}),
      Step("c", "fft", TRUE, {<<"w", 1>>}),
      Step("c", "nosuch", FALSE, {}) }

\* transformation.get('init_params'): <<>> is None, <<d>> is the dict d
GetInitParams(step) ==
    IF step.has_params THEN <<step.init_params>> ELSE <<>>

\* truth value of `if params:`
Truthy(params) == params # <<>> /\ params[1] # {}

(* --------------------------- _build_pipeline -------------------------- *)

\* collections.Counter lookup: a missing key counts 0
CounterGet(counter, primitive) ==
    IF primitive \in DOMAIN counter THEN counter[primitive] ELSE 0

\* counter[primitive] += 1
CounterIncr(counter, primitive) ==
    [p \in DOMAIN counter \cup {primitive} |->
        IF p = primitive THEN CounterGet(counter, primitive) + 1
        ELSE counter[p]]

\* variant: the occurrence count is left out of the name
PrimitiveNameFirst(primitive, count) == primitive \o "#" \o ToString(1)

\* f'{primitive}#{counter[primitive]}'
PrimitiveName(primitive, count) == primitive \o "#" \o ToString(count)

\* init_params[primitive_name] = params
DictSet(dict, key, value) ==
    [k \in DOMAIN dict \cup {key} |-> IF k = key THEN value ELSE dict[k]]

\* if params: init_params[primitive_name] = params
StoreParams(init_params, primitive_name, params) ==
    IF Truthy(params) THEN DictSet(init_params, primitive_name, params[1])
    ELSE init_params

RECURSIVE Join(_)
\* '.'.join(prefix)
Join(names) ==
    IF names = <<>> THEN ""
    ELSE IF Len(names) = 1 THEN names[1]
    ELSE names[1] \o "." \o Join(Tail(names))

\* f'{prefix}.{aggregation["name"]}'
AggregationName(prefix, name) == prefix \o "." \o name

\* variant: the field is put in front of the aggregation name
OutputNameSwapped(aggregation_name, field) ==
    field \o "." \o aggregation_name

\* f'{aggregation_name}.{output}'
OutputName(aggregation_name, field) == aggregation_name \o "." \o field

\* f'{primitive_name}.{output}'
OutputVariable(primitive_name, field) == primitive_name \o "." \o field

\* variant: the variable is formed from the aggregation name
PrimitiveOutputEntriesByName(aggregation_name, primitive_name, fields) ==
    [k \in 1..Len(fields) |->
        [name |-> OutputName(aggregation_name, fields[k]),
         variable |-> OutputVariable(aggregation_name, fields[k])]]

\* the inner loop over primitive_outputs
PrimitiveOutputEntries(aggregation_name, primitive_name, fields) ==
    [k \in 1..Len(fields) |->
        [name |-> OutputName(aggregation_name, fields[k]),
         variable |-> OutputVariable(primitive_name, fields[k])]]

\* state of the function before the first loop
EmptyBuild ==
    [ok |-> TRUE, primitives |-> <<>>, init_params |-> <<>>,
     prefix |-> <<>>, counter |-> <<>>, keys |-> <<>>, outputs |-> <<>>]

\* one iteration of `for transformation in transformations`
TransformationStep(st, transformation) ==
    LET primitive == transformation.primitive
        counter == CounterIncr(st.counter, primitive)
        primitive_name == PrimitiveName(primitive, counter[primitive])
    IN [st EXCEPT !.prefix = Append(@, transformation.name),
                  !.counter = counter,
                  !.keys = Append(@, primitive_name),
                  !.primitives = Append(@, primitive),
                  !.init_params =
                      StoreParams(@, primitive_name,
                                  GetInitParams(transformation))]

\* one iteration of `for aggregation in aggregations`; load_primitive
\* raises on an unknown primitive and the function is left
AggregationStep(st, prefix, aggregation) ==
    LET aggregation_name == AggregationName(prefix, aggregation.name)
        primitive == aggregation.primitive
        counter == CounterIncr(st.counter, primitive)
        primitive_name == PrimitiveName(primitive, counter[primitive])
    IN IF ~st.ok THEN st
       ELSE IF ~KnownPrimitive(primitive)
       THEN [st EXCEPT !.ok = FALSE,
                       !.counter = counter,
                       !.keys = Append(@, primitive_name),
                       !.primitives = Append(@, primitive)]
       ELSE [st EXCEPT !.counter = counter,
                       !.keys = Append(@, primitive_name),
                       !.primitives = Append(@, primitive),
                       !.outputs = @ \o PrimitiveOutputEntries(
                                       aggregation_name, primitive_name,
                                       PrimitiveOutputs[primitive]),
                       !.init_params =
                           StoreParams(@, primitive_name,
                                       GetInitParams(aggregation))]

RECURSIVE TransformationLoop(_, _)
TransformationLoop(st, ts) ==
    IF ts = <<>> THEN st
    ELSE TransformationLoop(TransformationStep(st, Head(ts)), Tail(ts))

RECURSIVE AggregationLoop(_, _, _)
AggregationLoop(st, prefix, as) ==
    IF as = <<>> THEN st
    ELSE AggregationLoop(AggregationStep(st, prefix, Head(as)), prefix,
                         Tail(as))

\* MLPipeline(primitives, ...) loads every primitive and raises on an
\* unknown one
MLPipelineOk(primitives) ==
    \A k \in 1..Len(primitives) : KnownPrimitive(primitives[k])

\* variant: the aggregations are counted with a counter of their own
BuildPipelineSeparateCounters(ts, as) ==
    LET first == TransformationLoop(EmptyBuild, ts)
        prefix == Join(first.prefix)
        second == AggregationLoop([first EXCEPT !.counter = <<>>], prefix,
                                  as)
    IN [ok |-> second.ok /\ MLPipelineOk(second.primitives),
        primitives |-> second.primitives,
        init_params |-> second.init_params,
        keys |-> second.keys,
        outputs |-> second.outputs]

\* _build_pipeline(transformations, aggregations); keys is the sequence of
\* values taken by the local primitive_name, one per step
BuildPipeline(ts, as) ==
    LET first == TransformationLoop(EmptyBuild, ts)
        prefix == Join(first.prefix)
        second == AggregationLoop(first, prefix, as)
    IN [ok |-> second.ok /\ MLPipelineOk(second.primitives),
        primitives |-> second.primitives,
        init_params |-> second.init_params,
        keys |-> second.keys,
        outputs |-> second.outputs]

NoPipeline ==
    [ok |-> FALSE, primitives |-> <<>>, init_params |-> <<>>,
     keys |-> <<>>, outputs |-> <<>>]

(* --------------------------- tables and rows -------------------------- *)

Column(n, c) == [name |-> n, cells |-> c]

HasColumn(table, name) == \E k \in 1..Len(table) : table[k].name = name

\* row[name] for the row at position i of the table
Cell(table, i, name) ==
    table[CHOOSE k \in 1..Len(table) : table[k].name = name].cells[i]

NumRows(table) == Len(table[1].cells)

(* --------------------------- _apply_pipeline -------------------------- *)

\* a sampling_frequency argument: a column name (str) or a number
FrequencyColumn(name) == [is_str |-> TRUE, column |-> name, value |-> 0]

FrequencyValue(v) == [is_str |-> FALSE, column |-> "", value |-> v]

\* variant: the column is read once, from the first row
ResolveFirstRow(table, i, frequency) ==
    IF frequency.is_str THEN Cell(table, 1, frequency.column)
    ELSE frequency.value

\* if isinstance(sampling_frequency, str): sampling_frequency = row[...]
\* (the caller has checked that the column exists)
ResolveSamplingFrequency(table, i, frequency) ==
    IF frequency.is_str THEN Cell(table, i, frequency.column)
    ELSE frequency.value

\* a value produced by the pipeline for one output variable, tagged with
\* the arguments of the predict call that produced it
Produced(variable, amplitude_values, frequency) ==
    [variable |-> variable, amplitude_values |-> amplitude_values,
     sampling_frequency |-> frequency]

None == Produced("None", 0, 0)

\* pipeline.predict(amplitude_values=..., sampling_frequency=...): a tuple
\* for several outputs, the bare value for one, None for none
Predict(pl, amplitude_values, frequency) ==
    LET values == [k \in 1..Len(pl.outputs) |->
                      Produced(pl.outputs[k].variable, amplitude_values,
                               frequency)]
    IN IF Len(values) > 1
       THEN [is_tuple |-> TRUE, value |-> None, items |-> values]
       ELSE IF Len(values) = 1
       THEN [is_tuple |-> FALSE, value |-> values[1], items |-> <<>>]
       ELSE [is_tuple |-> FALSE, value |-> None, items |-> <<>>]

\* pipeline.get_output_names()
GetOutputNames(pl) == [k \in 1..Len(pl.outputs) |-> pl.outputs[k].name]

\* output if isinstance(output, tuple) else (output, )
AsTuple(out) == IF out.is_tuple THEN out.items ELSE <<out.value>>

\* zip(output_names, output): stops at the shorter argument
Zip(names, values) ==
    LET n == IF Len(names) < Len(values) THEN Len(names) ELSE Len(values)
    IN [k \in 1..n |-> <<names[k], values[k]>>]

\* d[key] = value on an insertion-ordered dict
DictPut(dict, key, value) ==
    IF \E k \in 1..Len(dict) : dict[k][1] = key
    THEN [k \in 1..Len(dict) |->
             IF dict[k][1] = key THEN <<key, value>> ELSE dict[k]]
    ELSE Append(dict, <<key, value>>)

RECURSIVE DictFrom(_, _)
DictFrom(dict, pairs) ==
    IF pairs = <<>> THEN dict
    ELSE DictFrom(DictPut(dict, Head(pairs)[1], Head(pairs)[2]), Tail(pairs))

\* pd.Series(dict(zip(output_names, output)))
Series(names, values) == DictFrom(<<>>, Zip(names, values))

\* _apply_pipeline on row i: a missing column raises KeyError before the
\* pipeline is called; predict_ok tells whether the execution succeeds
ApplyPipeline(table, i, pl, column, frequency, predict_ok) ==
    LET found == (frequency.is_str => HasColumn(table, frequency.column))
                 /\ HasColumn(table, column)
        resolved == ResolveSamplingFrequency(table, i, frequency)
        amplitude_values == Cell(table, i, column)
    IN IF ~found
       THEN [ok |-> FALSE, called |-> FALSE, call |-> None, series |-> <<>>]
       ELSE [ok |-> predict_ok,
             called |-> TRUE,
             call |-> Produced("predict", amplitude_values, resolved),
             series |-> Series(GetOutputNames(pl),
                               AsTuple(Predict(pl, amplitude_values,
                                               resolved)))]

(* --------------------------- process_signals -------------------------- *)

\* variant: the per-row Series are stacked in reverse order
FeatureFrameReversed(series) ==
    IF series = <<>> THEN <<>>
    ELSE [k \in 1..Len(series[1]) |->
             Column(series[1][k][1],
                    [r \in 1..Len(series) |->
                        series[Len(series) + 1 - r][k][2]])]

\* the frame data.apply(..., axis=1) assembles from the per-row Series
FeatureFrame(series) ==
    IF series = <<>> THEN <<>>
    ELSE [k \in 1..Len(series[1]) |->
             Column(series[1][k][1],
                    [r \in 1..Len(series) |-> series[r][k][2]])]

\* pd.concat([data, features], axis=1)
Concat(table, frame) == table \o frame

\* del output[values_column]
DropColumn(table, name) == SelectSeq(table, LAMBDA c : c.name # name)

\* variant: the values column is never deleted
AugmentedKeeps(table, frame, column, keep) == Concat(table, frame)

\* lines 164-168
Augmented(table, frame, column, keep) ==
    IF keep THEN Concat(table, frame)
    ELSE DropColumn(Concat(table, frame), column)

(* ------------------------------- inputs ------------------------------- *)

SeqsUpTo(S, n) == UNION {[1..k -> S] : k \in 0..n}

SeqsFromTo(S, m, n) == UNION {[1..k -> S] : k \in m..n}

\* the cells of one row: <<id, values, sf>>
RowChoices == {<<1, 10, 1>>, <<2, 20, 1>>, <<3, 10, 2>>, <<4, 20, 2>>}

TableOf(rows) ==
    << Column("id", [r \in 1..Len(rows) |-> rows[r][1]]),
       Column("values", [r \in 1..Len(rows) |-> rows[r][2]]),
       Column("sf", [r \in 1..Len(rows) |-> rows[r][3]]) >>

FrequencyChoices ==
    {FrequencyValue(5), FrequencyColumn("sf"), FrequencyColumn("hz")}

ColumnChoices == {"values", "signal"}

\* step lists used while the table varies
PipelineChoices ==
    { << <<Step("a", "fft", FALSE, {})>>,
         <<Step("b", "mean", FALSE, {})>> >>,
      << <<Step("a", "fft", FALSE, {})>>,
         <<Step("b", "mean", FALSE, {}), Step("b", "mean", FALSE, {})>> >>,
      << <<>>, <<Step("b", "fft", FALSE, {})>> >>,
      << <<Step("a", "fft", FALSE, {})>>, <<>> >> }

\* many step lists, one table
InitPipelines ==
    /\ transformations \in SeqsUpTo(StepSpecs, MaxTransformations)
    /\ aggregations \in SeqsUpTo(StepSpecs, MaxAggregations)
    /\ data = TableOf(<< <<1, 10, 1>> >>)
    /\ sampling_frequency = FrequencyValue(5)
    /\ values_column = "values"
    /\ keep_values = FALSE

\* many tables and arguments, a few step lists
InitTables ==
    /\ \E choice \in PipelineChoices :
          /\ transformations = choice[1]
          /\ aggregations = choice[2]
    /\ \E rows \in SeqsFromTo(RowChoices, 1, MaxRows) : data = TableOf(rows)
    /\ sampling_frequency \in FrequencyChoices
    /\ values_column \in ColumnChoices
    /\ keep_values \in BOOLEAN

Init ==
    /\ InitPipelines \/ InitTables
    /\ pc = "start"
    /\ pipeline = NoPipeline
    /\ builds = 0
    /\ row = 1
    /\ calls = <<>>
    /\ features = <<>>
    /\ output = <<>>

(* ------------------------------- actions ------------------------------ *)

\* line 157, the pipeline is returned
Build ==
    /\ pc = "start"
    /\ BuildPipeline(transformations, aggregations).ok
    /\ pipeline' = BuildPipeline(transformations, aggregations)
    /\ builds' = builds + 1
    /\ pc' = "apply"
    /\ UNCHANGED <<inputs, row, calls, features, output>>

\* line 157, _build_pipeline raises
BuildRaises ==
    /\ pc = "start"
    /\ ~BuildPipeline(transformations, aggregations).ok
    /\ builds' = builds + 1
    /\ pc' = "raised"
    /\ UNCHANGED <<inputs, pipeline, row, calls, features, output>>

\* lines 158-162, _apply_pipeline returns the Series of the next row
ApplyRow ==
    /\ pc = "apply"
    /\ row <= NumRows(data)
    /\ LET r == ApplyPipeline(data, row, pipeline, values_column,
                              sampling_frequency, TRUE)
       IN /\ r.ok
          /\ calls' = Append(calls, r.call)
          /\ features' = Append(features, r.series)
    /\ row' = row + 1
    /\ UNCHANGED <<inputs, pc, pipeline, builds, output>>

\* variant: a failing row is skipped and the loop goes on
ApplyRowSkips ==
    /\ pc = "apply"
    /\ row <= NumRows(data)
    /\ \E predict_ok \in BOOLEAN :
          LET r == ApplyPipeline(data, row, pipeline, values_column,
                                 sampling_frequency, predict_ok)
          IN /\ ~r.ok
             /\ calls' = IF r.called THEN Append(calls, r.call) ELSE calls
    /\ row' = row + 1
    /\ UNCHANGED <<inputs, pc, pipeline, builds, features, output>>

\* lines 158-162, _apply_pipeline raises on the next row
ApplyRowRaises ==
    /\ pc = "apply"
    /\ row <= NumRows(data)
    /\ \E predict_ok \in BOOLEAN :
          LET r == ApplyPipeline(data, row, pipeline, values_column,
                                 sampling_frequency, predict_ok)
          IN /\ ~r.ok
             /\ calls' = IF r.called THEN Append(calls, r.call) ELSE calls
    /\ pc' = "raised"
    /\ UNCHANGED <<inputs, pipeline, builds, row, features, output>>

\* variant: the values column is deleted from the input table itself
ReturnInPlace ==
    /\ pc = "apply"
    /\ row > NumRows(data)
    /\ output' = Augmented(data, FeatureFrame(features), values_column,
                           keep_values)
    /\ data' = IF keep_values THEN data ELSE DropColumn(data, values_column)
    /\ pc' = "done"
    /\ UNCHANGED <<transformations, aggregations, sampling_frequency,
                   values_column, keep_values, pipeline, builds, row, calls,
                   features>>

\* lines 164-168
Return ==
    /\ pc = "apply"
    /\ row > NumRows(data)
    /\ output' = Augmented(data, FeatureFrame(features), values_column,
                           keep_values)
    /\ pc' = "done"
    /\ UNCHANGED <<inputs, pipeline, builds, row, calls, features>>

Next == Build \/ BuildRaises \/ ApplyRow \/ ApplyRowRaises \/ Return

Spec == Init /\ [][Next]_vars

(* ---------------------- vocabulary of the claims ----------------------- *)

Built == pc \in {"apply", "done"}

\* all transformations in input order, then all aggregations
Combined == transformations \o aggregations

\* 1-based number of steps at positions <= i with the primitive of step i
Occurrence(i) ==
    Cardinality({j \in 1..i : Combined[j].primitive = Combined[i].primitive})

ExpectedKey(i) ==
    Combined[i].primitive \o "#" \o ToString(Occurrence(i))

RECURSIVE NamesJoined(_)
\* the transformations' names up to position n, joined by '.'
NamesJoined(n) ==
    IF n = 0 THEN ""
    ELSE IF n = 1 THEN transformations[1].name
    ELSE NamesJoined(n - 1) \o "." \o transformations[n].name

Fields(a) == PrimitiveOutputs[aggregations[a].primitive]

RECURSIVE FieldsBefore(_)
\* number of outputs declared by the aggregations before position a
FieldsBefore(a) ==
    IF a = 1 THEN 0 ELSE FieldsBefore(a - 1) + Len(Fields(a - 1))

TotalFields ==
    IF aggregations = <<>> THEN 0
    ELSE FieldsBefore(Len(aggregations)) + Len(Fields(Len(aggregations)))

SetOf(seq) == {seq[k] : k \in 1..Len(seq)}

(* ------------------------------- claims ------------------------------- *)

\* C1: for non-empty transformations and aggregations, the declared output
\* names are, in order, prefix.aggregation-name.field for every aggregation
\* in input order and every declared field of its primitive in declared
\* order, prefix being the transformations' names joined by '.'.
C1_OutputNames ==
    (Built /\ transformations # <<>> /\ aggregations # <<>>) =>
        /\ Len(pipeline.outputs) = TotalFields
        /\ \A a \in 1..Len(aggregations) : \A f \in 1..Len(Fields(a)) :
              GetOutputNames(pipeline)[FieldsBefore(a) + f] =
                  NamesJoined(Len(transformations)) \o "." \o
                  aggregations[a].name \o "." \o Fields(a)[f]

C1_Witness ==
    /\ Built
    /\ Len(transformations) = 2
    /\ Len(aggregations) = 2
    /\ aggregations[1].primitive = "fft"
    /\ aggregations[2].primitive = "mean"
    /\ GetOutputNames(pipeline) = <<"a.b.c.amp", "a.b.c.freq", "a.b.b.value">>

\* C4: the step at position i of the combined sequence has the key
\* primitive#k, k being the 1-based count of steps at positions <= i with
\* the same primitive, counted over transformations and aggregations
\* together; no two steps share a key.
C4_Keys ==
    Built =>
        /\ Len(pipeline.keys) = Len(Combined)
        /\ \A i \in 1..Len(Combined) : pipeline.keys[i] = ExpectedKey(i)
        /\ \A i, j \in 1..Len(Combined) :
              i # j => pipeline.keys[i] # pipeline.keys[j]

C4_Witness ==
    /\ Built
    /\ Len(transformations) = 1
    /\ Len(aggregations) = 2
    /\ pipeline.keys = <<"mean#1", "fft#1", "mean#2">>

\* C10: every declared output prefix.aggregation-name.field is sourced from
\* primitive#occurrence.field, the key being that of the aggregation step
\* that declares it, counted over the whole combined sequence.
C10_OutputSources ==
    Built =>
        \A a \in 1..Len(aggregations) : \A f \in 1..Len(Fields(a)) :
            pipeline.outputs[FieldsBefore(a) + f].variable =
                ExpectedKey(Len(transformations) + a) \o "." \o Fields(a)[f]

C10_Witness ==
    /\ Built
    /\ Len(transformations) = 1
    /\ transformations[1].primitive = "mean"
    /\ Len(aggregations) = 1
    /\ pipeline.outputs =
           <<[name |-> "a.b.value", variable |-> "mean#2.value"]>>

\* a step whose init_params reach the pipeline: present and not empty
HasStoredParams(step) == step.has_params /\ step.init_params # {}

\* C5 as stated: every step with init_params present has exactly its params
\* under its own key, every step without init_params has no entry.
C5_AsStated ==
    Built =>
        \A i \in 1..Len(Combined) :
            IF Combined[i].has_params
            THEN /\ ExpectedKey(i) \in DOMAIN pipeline.init_params
                 /\ pipeline.init_params[ExpectedKey(i)] =
                        Combined[i].init_params
            ELSE ExpectedKey(i) \notin DOMAIN pipeline.init_params

\* C5: every step whose init_params are present and not empty has exactly
\* its params under its own key; every step whose init_params are absent or
\* empty has no entry; occurrences of one primitive keep their own params.
C5_InitParams ==
    Built =>
        /\ \A i \in 1..Len(Combined) :
              IF HasStoredParams(Combined[i])
              THEN /\ ExpectedKey(i) \in DOMAIN pipeline.init_params
                   /\ pipeline.init_params[ExpectedKey(i)] =
                          Combined[i].init_params
              ELSE ExpectedKey(i) \notin DOMAIN pipeline.init_params
        /\ DOMAIN pipeline.init_params \subseteq
               {ExpectedKey(i) : i \in 1..Len(Combined)}

C5_Witness ==
    /\ Built
    /\ Len(transformations) = 2
    /\ Len(aggregations) = 2
    /\ pipeline.keys = <<"mean#1", "fft#1", "mean#2", "mean#3">>
    /\ DOMAIN pipeline.init_params = {"mean#1", "mean#3"}
    /\ pipeline.init_params["mean#1"] = {<<"w", 1>>}
    /\ pipeline.init_params["mean#3"] = {<<"w", 2>>}

\* C6: the record returned for a row has exactly one field per declared
\* output: its field names are the declared output names and it has as
\* many fields as there are declared outputs.
C6_OneFieldPerOutput ==
    \A r \in 1..Len(features) :
        /\ {features[r][k][1] : k \in 1..Len(features[r])} =
               SetOf(GetOutputNames(pipeline))
        /\ Len(features[r]) = Len(pipeline.outputs)

(* the table ------------------------------------------------------------ *)

\* the input columns that the returned table keeps
Kept ==
    IF keep_values THEN data
    ELSE SelectSeq(data, LAMBDA c : c.name # values_column)

FeatureNames == SetOf(GetOutputNames(pipeline))

\* C2: without keep_values the returned table has no values column; with
\* it the values column is there with its cells unchanged; every other
\* input column is in the output unchanged and in the original order, and
\* every feature column comes after every original column.
C2_Columns ==
    pc = "done" =>
        /\ ~keep_values => ~HasColumn(output, values_column)
        /\ keep_values =>
              \E k \in 1..Len(output) : \E d \in 1..Len(data) :
                  /\ output[k].name = values_column
                  /\ data[d].name = values_column
                  /\ output[k].cells = data[d].cells
        /\ Len(output) >= Len(Kept)
        /\ \A k \in 1..Len(Kept) :
              /\ output[k].name = Kept[k].name
              /\ output[k].cells = Kept[k].cells
        /\ \A k \in (Len(Kept) + 1)..Len(output) :
              output[k].name \in FeatureNames
        /\ Len(output) = Len(Kept) + Cardinality(FeatureNames)

C2_Witness ==
    /\ pc = "done"
    /\ ~keep_values
    /\ NumRows(data) = 2
    /\ Len(output) = 4
    /\ output[1].name = "id"
    /\ output[2].name = "sf"
    /\ output[3].name = ".b.amp"
    /\ output[4].name = ".b.freq"

\* C3: the frequency handed to the pipeline for a row is the row's own
\* value in the named column when sampling_frequency is a column name, and
\* the number itself when it is a number.
C3_SamplingFrequency ==
    \A k \in 1..Len(calls) :
        IF sampling_frequency.is_str
        THEN \E c \in 1..Len(data) :
                 /\ data[c].name = sampling_frequency.column
                 /\ calls[k].sampling_frequency = data[c].cells[k]
        ELSE calls[k].sampling_frequency = sampling_frequency.value

C3_Witness ==
    /\ pc = "done"
    /\ sampling_frequency.is_str
    /\ Len(calls) = 2
    /\ calls[1].sampling_frequency = 1
    /\ calls[2].sampling_frequency = 2

\* C7: the pipeline is built once and before any row is applied, it is
\* executed once per input row, and row i of the output carries the
\* features computed from row i of the input; the output has as many rows
\* as the input.
C7_OncePerRow ==
    /\ builds <= 1
    /\ pc = "start" => (builds = 0 /\ calls = <<>> /\ features = <<>>)
    /\ calls # <<>> => builds = 1
    /\ Len(calls) <= NumRows(data)
    /\ \A k \in 1..Len(calls) :
          calls[k].amplitude_values = Cell(data, k, values_column)
    /\ pc = "done" =>
          /\ Len(calls) = NumRows(data)
          /\ \A c \in 1..Len(output) :
                Len(output[c].cells) = NumRows(data)
          /\ \A c \in (Len(Kept) + 1)..Len(output) :
                \A i \in 1..NumRows(data) :
                    /\ output[c].cells[i].amplitude_values =
                           Cell(data, i, values_column)
                    /\ output[c].cells[i].sampling_frequency =
                           calls[i].sampling_frequency

C7_Witness ==
    /\ pc = "done"
    /\ NumRows(data) = 2
    /\ Cell(data, 1, "values") # Cell(data, 2, "values")
    /\ values_column = "values"
    /\ keep_values
    /\ Len(output) = 4
    /\ output[4].cells[1].amplitude_values = Cell(data, 1, "values")
    /\ output[4].cells[2].amplitude_values = Cell(data, 2, "values")

\* a state in which the next step of process_signals must raise
MustRaise ==
    \/ pc = "start" /\ ~BuildPipeline(transformations, aggregations).ok
    \/ /\ pc = "apply"
       /\ row <= NumRows(data)
       /\ \/ ~HasColumn(data, values_column)
          \/ sampling_frequency.is_str
             /\ ~HasColumn(data, sampling_frequency.column)

\* C8: a failure of the build, of the execution on a row or of a column
\* lookup ends process_signals with that failure: nothing runs afterwards,
\* no table is returned, and a table is returned only when the build and
\* every row succeeded.
C8_FailurePropagates ==
    [][ /\ pc # "raised"
        /\ MustRaise => pc' = "raised"
        /\ pc' = "raised" => output' = <<>>
        /\ pc' = "done" =>
              /\ pipeline.ok
              /\ Len(features) = NumRows(data)
              /\ Len(calls) = NumRows(data) ]_vars

C8_Witness ==
    /\ pc = "raised"
    /\ NumRows(data) = 2
    /\ Len(features) = 1
    /\ Len(calls) = 2
    /\ output = <<>>

\* C9: the input table is read-only: whatever keep_values is, it keeps its
\* columns (the values column included), rows and cells; the values column
\* is dropped from the returned table only.
C9_InputUntouched == [][data' = data]_vars

C9_Witness ==
    /\ pc = "done"
    /\ ~keep_values
    /\ HasColumn(data, values_column)
    /\ ~HasColumn(output, values_column)
    /\ Len(output) >= 3

====
